---- MODULE Spec2Model ----
(***************************************************************************)
(* Model of the KILT DIP SDK proof-composition pipeline.                   *)
(*                                                                         *)
(* The SDK is a set of asynchronous functions that read three chains       *)
(* (relay, provider, consumer).  Every `await` is a point at which the     *)
(* chains may produce or finalize blocks, so each function is modelled as  *)
(* a sequence of steps interleaved with the chains' own actions.           *)
(*                                                                         *)
(* The repository holds several revisions of the same functions; each      *)
(* revision that is referred to is modelled under its own name:            *)
(*   part_008  generateProviderStateRootProof(providerBlockHeight), with   *)
(*             the "is the block provable" check                           *)
(*   part_013  generateProviderStateRootProof(providerBlockHeight?), the   *)
(*             utils.ts revision used by generateDipAuthorizedTxForSibling *)
(*   current   src/stateProof/providerStateRoot.ts, relayBlockHeight based *)
(*                                                                         *)
(* Chain model (no forks, no re-organisations): a provider block n+1 is    *)
(* authored on a relay parent whose paras.heads entry is block n, and the  *)
(* relay chain includes provider blocks one at a time.                     *)
(***************************************************************************)
EXTENDS Integers, Sequences, FiniteSets, TLC

\* ------------------------------------------------------------------ bounds
MaxRelay == 3
MaxProv == 2
MaxCons == 2
MaxNonce == 1

\* `undefined` / absent optional value of a block height
Undefined == 0 - 1

VARIABLES
    relayHeads,   \* relayHeads[r+1]: provider block number in paras.heads at relay block r
    relayFin,     \* latest finalized relay block number
    provParent,   \* provParent[n+1]: parachainSystem.lastRelayChainBlockNumber at provider block n
    provFin,      \* latest finalized provider block number
    provCommit,   \* provCommit[n+1]: dipProvider.identityCommitments at provider block n
    consHeight,   \* consumer chain: system.number
    consIdentity, \* consumer chain: dipConsumer.identityEntries
    anc,          \* the generateProviderStateRootProof invocation in flight
    base,         \* the proof composition (anchor, commitment, disclosure) in flight
    sig,          \* the DID signature generation in flight
    signerLog     \* what the signing callback was handed by the previous invocation
                  \* made with the same inputs, if there was one

chainVars == <<relayHeads, relayFin, provParent, provFin, provCommit>>
consVars == <<consHeight, consIdentity>>
proofVars == <<base>>
sigVars == <<sig, signerLog>>
vars == <<relayHeads, relayFin, provParent, provFin, provCommit, consHeight,
          consIdentity, anc, base, sig, signerLog>>

\* ------------------------------------------------------------------ values
ZeroHash == [chain |-> "zero", height |-> 0]
\* hash of an all-default header, what a block lookup by an unknown hash decodes to
PhantomHash == [chain |-> "phantom", height |-> 0]
PHash(n) == [chain |-> "provider", height |-> n]
RHash(r) == [chain |-> "relay", height |-> r]
StateRoot(n) == [chain |-> "providerState", height |-> n]

ProviderParaId == "providerParaId"

RelayBest == Len(relayHeads) - 1
ProvBest == Len(provParent) - 1

\* ------------------------------------------------------------------ chain RPCs
\* rpc.chain.getBlockHash(height): the zero hash for a block that does not exist
ProviderGetBlockHash(n) == IF n \in 0..ProvBest THEN PHash(n) ELSE ZeroHash
RelayGetBlockHash(r) == IF r \in 0..RelayBest THEN RHash(r) ELSE ZeroHash

\* parachainSystem.lastRelayChainBlockNumber() at a provider block
LastRelayChainBlockNumber(h) == provParent[h.height + 1]

\* header of a provider block as the relay chain stores it in paras.heads:
\* the encoded header starts with the 32 bytes of the parent hash
ParentHash(n) == IF n = 0 THEN ZeroHash ELSE PHash(n - 1)
HeadData(n) == <<ParentHash(n), n, StateRoot(n)>>

\* paras.heads(paraId) at a relay block hash
ParasHeads(rh) == HeadData(relayHeads[rh.height + 1])

\* the storage keys a relay read proof can be asked for
HeadsKey(paraId) == <<"paras.heads", paraId>>
HeadsKeyNoArg == <<"paras.heads">>

\* rpc.state.getReadProof([key], relayHash): the proof attests the value under key
RelayReadProof(key, rh) ==
    [at |-> rh, key |-> key,
     value |-> IF key = HeadsKey(ProviderParaId) THEN ParasHeads(rh) ELSE <<>>]

NoProof == [at |-> ZeroHash, key |-> <<>>, value |-> <<>>]

\* ------------------------------------------------------------------ anchor results
NoAnchorRes ==
    [status |-> "none", proof |-> NoProof,
     relayBlockHeight |-> Undefined, relayBlockHash |-> ZeroHash,
     providerBlockHeight |-> Undefined, providerBlockHash |-> ZeroHash]

AnchorError(kind) == [NoAnchorRes EXCEPT !.status = kind]

IdleAnchor ==
    [rev |-> "none", pc |-> "idle", caller |-> "none",
     N |-> Undefined, relayIn |-> Undefined,
     finAtStart |-> Undefined, fin |-> Undefined, next |-> "pending",
     bh |-> ZeroHash, rh |-> ZeroHash, hdr |-> ZeroHash, hdrNum |-> Undefined,
     res |-> NoAnchorRes]

\* ------------------------------------------------------------------ identities
Subjects == {"alice", "bob"}
Versions == {0, 1}
\* no commitment stored under a key (Option::None)
NoDigest == 0
CommitKeys == Subjects \X Versions

NoNonce == 0 - 1

\* a DID URI and its chain encoding: toChain() drops the "did:kilt:" prefix
DidUris == {"did:kilt:alice", "did:kilt:bob"}
ToChain(didUri) == IF didUri = "did:kilt:alice" THEN "alice" ELSE "bob"

\* the digest an identity commitment made in provider block n stores: every
\* commitment is of a changed identity, so no two blocks commit the same digest
Digest(n) == n

\* an optional string or hash that is not given
Omitted == "undefined"
\* an optional list that is not given
OmittedList == <<Omitted>>

NoCommitRes == [status |-> "none", proof |-> NoProof]

\* dipProvider.generateProof: the request, and no request
NoRequest ==
    [identifier |-> "none", version |-> Undefined, proofKeys |-> <<>>,
     accounts |-> <<>>, shouldIncludeWeb3Name |-> Omitted]
\* subjectIdentity.ts:42-49  DipIdentityProofRes, with what was asked of the
\* provider (as passed and as served), the provider block it was served on,
\* and for a failure the provider's error and the message of the thrown Error
NoDipRes ==
    [status |-> "none", root |-> NoDigest, kind |-> <<>>,
     message |-> [text |-> "none", pallet |-> Undefined, error |-> Undefined],
     proof |-> [blinded |-> {}, revealed |-> <<>>],
     request |-> NoRequest, served |-> NoRequest, servedAt |-> Undefined]

\* no relay header fetched
NoHeader == [number |-> Undefined]

\* no operation built
NoOp == [subject |-> "none", proof |-> <<>>, call |-> "none"]

IdleBase ==
    [fn |-> "none", pc |-> "idle", didUri |-> "none", version |-> Undefined,
     relayIn |-> Undefined, provIn |-> Undefined,
     keyIds |-> <<>>, includeWeb3Name |-> Omitted, linkedAccounts |-> OmittedList,
     anchor |-> NoAnchorRes, commitAt |-> ZeroHash,
     commit |-> NoCommitRes, dip |-> NoDipRes, status |-> "none",
     ext |-> [didUri |-> "none", call |-> "none"], op |-> NoOp,
     header |-> NoHeader, envelope |-> <<>>]

\* ------------------------------------------------------------------ signatures
\* part_010:27  defaultValues.validUntilOffset
ValidUntilOffset == 50

ConsumerGenesis == "consumerGenesis"
OtherGenesis == "otherGenesis"

\* part_010:72-76  TimeBoundDidSignatureRes
NoSigRes == [validUntil |-> Undefined, signature |-> <<>>, type |-> "none"]
NoSigElement == [signature |-> <<>>, validUntil |-> Undefined]

IdleSig ==
    [pc |-> "idle", didUri |-> "none", call |-> "none", submitterAddress |-> "none",
     validUntil |-> Undefined, genesisHash |-> Omitted,
     identityDetailsRuntimeType |-> Omitted,
     reads |-> {}, blockNumber |-> Undefined, genesis |-> Omitted,
     identityDetails |-> NoNonce, payload |-> <<>>, signedAt |-> Undefined,
     res |-> NoSigRes, codec |-> NoSigElement, element |-> NoSigElement,
     status |-> "none"]

\* ------------------------------------------------------------------ the chains
Init ==
    /\ relayHeads = <<0>>
    /\ relayFin = 0
    /\ provParent = <<0>>
    /\ provFin = 0
    /\ provCommit = <<[k \in CommitKeys |-> NoDigest]>>
    /\ consHeight = 0
    /\ consIdentity = [s \in Subjects |-> NoNonce]
    /\ anc = IdleAnchor
    /\ base = IdleBase
    /\ sig = IdleSig
    /\ signerLog = <<>>

\* The relay chain authors a block; it may include the next provider block.
RelayProduce ==
    /\ RelayBest < MaxRelay
    /\ LET cur == relayHeads[Len(relayHeads)]
           r == RelayBest + 1
       IN \E h \in {cur} \cup {n \in {cur + 1} : n <= ProvBest /\ provParent[n + 1] < r} :
              relayHeads' = Append(relayHeads, h)
    /\ UNCHANGED <<relayFin, provParent, provFin, provCommit>>
    /\ UNCHANGED <<consVars, anc, proofVars, sigVars>>

\* The provider chain authors block n on the relay chain's best block, whose
\* paras.heads entry is the parent n-1.  The block carries no identity operation.
ProviderProduce ==
    /\ ProvBest < MaxProv
    /\ relayHeads[Len(relayHeads)] = ProvBest
    /\ provParent' = Append(provParent, RelayBest)
    /\ provCommit' = Append(provCommit, provCommit[Len(provCommit)])
    /\ UNCHANGED <<relayHeads, relayFin, provFin>>
    /\ UNCHANGED <<consVars, anc, proofVars, sigVars>>

RelayFinalize ==
    /\ relayFin < RelayBest
    /\ relayFin' = relayFin + 1
    /\ UNCHANGED <<relayHeads, provParent, provFin, provCommit>>
    /\ UNCHANGED <<consVars, anc, proofVars, sigVars>>

\* A provider block is finalized once a finalized relay block includes it.
ProviderFinalize ==
    /\ provFin < relayHeads[relayFin + 1]
    /\ provFin' = provFin + 1
    /\ UNCHANGED <<relayHeads, relayFin, provParent, provCommit>>
    /\ UNCHANGED <<consVars, anc, proofVars, sigVars>>

\* The provider chain authors a block in which the identity commitment of
\* (subject, version) is set anew (dipProvider.commitIdentity).
ProviderProduceCommit(subject, version) ==
    /\ ProvBest < MaxProv
    /\ relayHeads[Len(relayHeads)] = ProvBest
    /\ provParent' = Append(provParent, RelayBest)
    /\ provCommit' = Append(provCommit,
          [provCommit[Len(provCommit)] EXCEPT
              ![<<subject, version>>] = Digest(ProvBest + 1)])
    /\ UNCHANGED <<relayHeads, relayFin, provFin>>
    /\ UNCHANGED <<consVars, anc, proofVars, sigVars>>

ChainStep == RelayProduce \/ ProviderProduce \/ RelayFinalize \/ ProviderFinalize

\* ------------------------------------------------------------------ library outcomes
\* derive.chain.getBlockByNumber(height) on the provider chain.  For a height
\* with no block the node answers the hash lookup with null; what the library
\* makes of it is not fixed by this repository: the promise is rejected, or it
\* resolves without a block.
ProviderGetBlockByNumber(n) ==
    IF n \in 0..ProvBest THEN {"block"} ELSE {"rejected", "empty"}

RelayGetBlockByNumber(r) ==
    IF r \in 0..RelayBest THEN {"block"} ELSE {"rejected", "empty"}

\* ------------------------------------------------------------------ part_008
\* a provability check that also lets the latest finalized block itself through
IsProviderBlockProvable_AllowsLatest(latestProviderFinalizedBlockNumber, providerBlockHeight) ==
    latestProviderFinalizedBlockNumber - providerBlockHeight >= 0

\* the relay parent read at the requested block itself instead of its successor
NextProviderBlockHeight_Same(providerBlockHeight) == providerBlockHeight

\* generateProviderStateRootProof({ providerApi, relayApi, providerBlockHeight })

\* part_008:58-62  blockDelta = latestFinalized - providerBlockHeight; delta > 0
IsProviderBlockProvable(latestProviderFinalizedBlockNumber, providerBlockHeight) ==
    latestProviderFinalizedBlockNumber - providerBlockHeight > 0

\* part_008:56  the block whose relay parent is read: providerBlockHeight.addn(1)
NextProviderBlockHeight(providerBlockHeight) == providerBlockHeight + 1

AnchorInFlight(rev, caller) ==
    [IdleAnchor EXCEPT !.rev = rev, !.caller = caller, !.finAtStart = provFin]

\* the call: both reads of the Promise.all are issued
A8Start(N) ==
    /\ anc.pc = "idle"
    /\ anc' = [AnchorInFlight("part_008", "user") EXCEPT !.pc = "reads", !.N = N]
    /\ UNCHANGED <<chainVars, consVars, proofVars, sigVars>>

\* part_008:55  providerApi.derive.chain.bestNumberFinalized() is answered
A8ReadFinalized ==
    /\ anc.rev = "part_008" /\ anc.pc = "reads"
    /\ anc.fin = Undefined
    /\ anc' = [anc EXCEPT !.fin = provFin]
    /\ UNCHANGED <<chainVars, consVars, proofVars, sigVars>>

\* part_008:56  providerApi.derive.chain.getBlockByNumber(N + 1) is answered;
\* a rejection rejects the Promise.all at once
A8ReadNextBlock ==
    /\ anc.rev = "part_008" /\ anc.pc = "reads"
    /\ anc.next = "pending"
    /\ \E o \in ProviderGetBlockByNumber(NextProviderBlockHeight(anc.N)) :
          anc' = IF o = "rejected"
                 THEN [anc EXCEPT !.next = o, !.pc = "done", !.res = AnchorError("RpcError")]
                 ELSE [anc EXCEPT !.next = o]
    /\ UNCHANGED <<chainVars, consVars, proofVars, sigVars>>

\* part_008:58-66  both reads are in: the provability check
A8Check ==
    /\ anc.rev = "part_008" /\ anc.pc = "reads"
    /\ anc.fin # Undefined /\ anc.next \in {"block", "empty"}
    /\ anc' = IF ~IsProviderBlockProvable(anc.fin, anc.N)
              THEN [anc EXCEPT !.pc = "done", !.res = AnchorError("NotProvable")]
              ELSE IF anc.next = "empty"
              THEN [anc EXCEPT !.pc = "done", !.res = AnchorError("TypeError")]
              ELSE [anc EXCEPT !.pc = "proof",
                               !.bh = PHash(NextProviderBlockHeight(anc.N))]
    /\ UNCHANGED <<chainVars, consVars, proofVars, sigVars>>

\* part_008:67-86  relay parent of the next block, its hash, the read proof
A8Proof ==
    /\ anc.rev = "part_008" /\ anc.pc = "proof"
    /\ LET relayParentBlockNumber == LastRelayChainBlockNumber(anc.bh)
           relayParentBlockHash == RelayGetBlockHash(relayParentBlockNumber)
       IN anc' = [anc EXCEPT
                    !.pc = "done",
                    !.rh = relayParentBlockHash,
                    !.res = [NoAnchorRes EXCEPT
                               !.status = "ok",
                               !.proof = RelayReadProof(HeadsKey(ProviderParaId),
                                                        relayParentBlockHash),
                               !.relayBlockHeight = relayParentBlockNumber]]
    /\ UNCHANGED <<chainVars, consVars, proofVars, sigVars>>

\* ------------------------------------------------------------------ part_013
\* generateProviderStateRootProof({ providerApi, relayApi, providerBlockHeight? })

A13Start(N) ==
    /\ anc.pc = "idle"
    /\ anc' = [AnchorInFlight("part_013", "user") EXCEPT !.pc = "resolve", !.N = N]
    /\ UNCHANGED <<chainVars, consVars, proofVars, sigVars>>

\* the best block in place of the finalized head
A13Resolve_Best ==
    /\ anc.rev = "part_013" /\ anc.pc = "resolve"
    /\ anc' = IF anc.N # Undefined
              THEN [anc EXCEPT !.pc = "proof", !.bh = ProviderGetBlockHash(anc.N)]
              ELSE [anc EXCEPT !.pc = "proof", !.N = ProvBest, !.bh = PHash(ProvBest)]
    /\ UNCHANGED <<chainVars, consVars, proofVars, sigVars>>

\* part_013:66-78  the given height and its hash, or the finalized head and its number
A13Resolve ==
    /\ anc.rev = "part_013" /\ anc.pc = "resolve"
    /\ anc' = IF anc.N # Undefined
              THEN [anc EXCEPT !.pc = "proof", !.bh = ProviderGetBlockHash(anc.N)]
              ELSE [anc EXCEPT !.pc = "proof", !.N = provFin, !.bh = PHash(provFin)]
    /\ UNCHANGED <<chainVars, consVars, proofVars, sigVars>>

\* part_013:79-98  state at the block itself: its relay parent, the read proof
A13Proof ==
    /\ anc.rev = "part_013" /\ anc.pc = "proof"
    /\ anc' =
         IF anc.bh = ZeroHash
         THEN [anc EXCEPT !.pc = "done", !.res = AnchorError("RpcError")]
         ELSE LET relayParentBlockNumber == LastRelayChainBlockNumber(anc.bh)
                  relayParentBlockHash == RelayGetBlockHash(relayParentBlockNumber)
              IN [anc EXCEPT
                    !.pc = "done",
                    !.rh = relayParentBlockHash,
                    !.res = [NoAnchorRes EXCEPT
                               !.status = "ok",
                               !.proof = RelayReadProof(HeadsKey(ProviderParaId),
                                                        relayParentBlockHash),
                               !.providerBlockHeight = anc.N,
                               !.relayBlockHeight = relayParentBlockNumber]]
    /\ UNCHANGED <<chainVars, consVars, proofVars, sigVars>>

\* ------------------------------------------------------------------ current
\* src/stateProof/providerStateRoot.ts
\* generateProviderStateRootProof({ providerApi, relayApi, relayBlockHeight })

\* the stored head taken as the hash of the head block itself
HeadDataSlice32_OwnHash(headData) == PHash(headData[2])

\* providerStateRoot.ts:70  providerHeadData.unwrap().slice(0, 32)
HeadDataSlice32(headData) == headData[1]

\* providerStateRoot.ts:71  providerApi.rpc.chain.getBlock(hash): the header of
\* the block, or for an unknown hash whatever the library decodes from the
\* node's null answer: a rejection, or an all-default header
ProviderGetBlockHeader(h) ==
    IF h.chain = "provider" /\ h.height \in 0..ProvBest
    THEN {[status |-> "ok", hash |-> h, number |-> h.height]}
    ELSE {[status |-> "rejected", hash |-> ZeroHash, number |-> Undefined],
          [status |-> "ok", hash |-> PhantomHash, number |-> 0]}

\* providerStateRoot.ts:75  relayApi.query.paras.heads.key(): a map key built
\* without its argument; the library throws, or yields the bare prefix
ParasHeadsKeyOutcomes == {<<>>, HeadsKeyNoArg}

ACurStart(relayBlockHeight) ==
    /\ anc.pc = "idle"
    /\ anc' = [AnchorInFlight("current", "user") EXCEPT
                 !.pc = "relayBlock", !.relayIn = relayBlockHeight]
    /\ UNCHANGED <<chainVars, consVars, proofVars, sigVars>>

\* providerStateRoot.ts:61-66  para id, then the relay block at the given height
ACurRelayBlock ==
    /\ anc.rev = "current" /\ anc.pc = "relayBlock"
    /\ \E o \in RelayGetBlockByNumber(anc.relayIn) :
          anc' = IF o = "block"
                 THEN [anc EXCEPT !.pc = "head", !.rh = RHash(anc.relayIn)]
                 ELSE [anc EXCEPT !.pc = "done",
                         !.res = AnchorError(IF o = "rejected" THEN "RpcError"
                                             ELSE "TypeError")]
    /\ UNCHANGED <<chainVars, consVars, proofVars, sigVars>>

\* providerStateRoot.ts:67-72  the head stored at that relay block, its first 32
\* bytes taken as a provider block hash, and the header of that block
ACurHead ==
    /\ anc.rev = "current" /\ anc.pc = "head"
    /\ LET providerHeadData == ParasHeads(anc.rh)
           providerBlockHash == HeadDataSlice32(providerHeadData)
       IN \E hd \in ProviderGetBlockHeader(providerBlockHash) :
             anc' = IF hd.status = "ok"
                    THEN [anc EXCEPT !.pc = "proof", !.hdr = hd.hash, !.hdrNum = hd.number]
                    ELSE [anc EXCEPT !.pc = "done", !.res = AnchorError("RpcError")]
    /\ UNCHANGED <<chainVars, consVars, proofVars, sigVars>>

\* providerStateRoot.ts:74-85  the read proof at the same relay hash, the result
ACurProof ==
    /\ anc.rev = "current" /\ anc.pc = "proof"
    /\ \E key \in ParasHeadsKeyOutcomes :
          anc' = IF key = <<>>
                 THEN [anc EXCEPT !.pc = "done", !.res = AnchorError("TypeError")]
                 ELSE [anc EXCEPT
                         !.pc = "done",
                         !.res = [status |-> "ok",
                                  proof |-> RelayReadProof(key, anc.rh),
                                  relayBlockHash |-> anc.rh,
                                  relayBlockHeight |-> anc.relayIn,
                                  providerBlockHash |-> anc.hdr,
                                  providerBlockHeight |-> anc.hdrNum]]
    /\ UNCHANGED <<chainVars, consVars, proofVars, sigVars>>

\* the caller has its result (or error); the next invocation may start
AnchorReturn ==
    /\ anc.pc = "done" /\ anc.caller = "user"
    /\ anc' = IdleAnchor
    /\ UNCHANGED <<chainVars, consVars, proofVars, sigVars>>

ProviderHeights == 0..(MaxProv + 1)
RelayHeights == 0..(MaxRelay + 1)

AnchorStep ==
    \/ \E N \in ProviderHeights : A8Start(N)
    \/ A8ReadFinalized
    \/ A8ReadNextBlock
    \/ A8Check
    \/ A8Proof
    \/ \E N \in ProviderHeights \cup {Undefined} : A13Start(N)
    \/ A13Resolve
    \/ A13Proof
    \/ \E r \in RelayHeights : ACurStart(r)
    \/ ACurRelayBlock
    \/ ACurHead
    \/ ACurProof
    \/ AnchorReturn

NextAnchor == ChainStep \/ AnchorStep

SpecAnchor == Init /\ [][NextAnchor]_vars

\* ------------------------------------------------------------------ commitment proof
\* src/stateProof/subjectDipCommitment.ts

\* subjectDipCommitment.ts:51-54  identityCommitments.key(toChain(didUri), version)
CommitmentKey(didUri, version) ==
    <<"dipProvider.identityCommitments", ToChain(didUri), version>>

\* providerApi.rpc.state.getReadProof([key], providerBlockHash): a proof of what
\* is stored under the key at that block, a value or its absence; the node
\* refuses a hash that is no block of the chain
ProviderReadProof(key, bh) ==
    IF bh.chain = "provider" /\ bh.height \in 0..ProvBest
    THEN [status |-> "ok",
          proof |-> [at |-> bh, key |-> key,
                     value |-> provCommit[bh.height + 1][<<key[2], key[3]>>]]]
    ELSE [NoCommitRes EXCEPT !.status = "RpcError"]

\* subjectDipCommitment.ts:43-60  generateDipCommitmentProof
GenerateDipCommitmentProof(didUri, providerBlockHash, version) ==
    ProviderReadProof(CommitmentKey(didUri, version), providerBlockHash)

\* ------------------------------------------------------------------ disclosure proof
\* src/dipProof/subjectIdentity.ts

\* the error kinds of the provider's proof-generation entrypoint
ProofErrorKinds ==
    {"DidNotFound", "DidDeleted", "KeyNotFound", "LinkedAccountNotFound",
     "Web3NameNotFound", "UnsupportedVersion", "Internal"}

\* RuntimeApiDipProofError: the two groups of errors and their kinds, in the
\* order of the enums
ErrorGroups == <<"IdentityProvider", "MerkleProof">>
ErrorKindsOf(group) ==
    IF group = "IdentityProvider"
    THEN <<"DidNotFound", "DidDeleted", "Internal">>
    ELSE <<"UnsupportedVersion", "KeyNotFound", "LinkedAccountNotFound",
           "Web3NameNotFound", "Internal">>

IndexIn(seq, x) == CHOOSE i \in 1..Len(seq) : seq[i] = x

\* proof.asErr.toHex(): the enum indices of the group and of the kind
ErrorToHex(err) ==
    <<IndexIn(ErrorGroups, err[1]) - 1, IndexIn(ErrorKindsOf(err[1]), err[2]) - 1>>

\* providerApi.findError(hex): the bytes are taken as (pallet index, error
\* index) of a module error of the provider's metadata.  The lookup gives the
\* documentation of that module error, or throws when the metadata has none.
FindError(hex) ==
    {[text |-> t, pallet |-> hex[1], error |-> hex[2]] :
        t \in {"docs of the module error", "findMetaError: Unable to find Error"}}

\* verification method ids, as characters: the fragments "#a", "#b", "#z"
KeyIds == {<<"#", "a">>, <<"#", "b">>, <<"#", "z">>}
\* what the identities on the provider chain hold: the keys a and b, one
\* linked account, and for alice a web3name
DidKeyIds == {<<"a">>, <<"b">>}
DidLinkedAccounts == {"account1"}
HasWeb3Name(identifier) == identifier = "alice"

\* the identifier kept whole
Substring1_Whole(keyId) == keyId

\* subjectIdentity.ts:68  keyId.substring(1)
Substring1(keyId) == IF keyId = <<>> THEN keyId ELSE Tail(keyId)

\* subjectIdentity.ts:65-71  the request handed to the runtime call
ProofRequest(didUri, keyIds, includeWeb3Name, linkedAccounts, version) ==
    [identifier |-> ToChain(didUri),
     version |-> version,
     proofKeys |-> [i \in 1..Len(keyIds) |-> Substring1(keyIds[i])],
     accounts |-> linkedAccounts,
     shouldIncludeWeb3Name |-> includeWeb3Name]

\* the request as it was handed over
EncodeRequest_Raw(request) == request

\* the request as encoded for the runtime: a flag or list that is not given is
\* encoded as the default of its type
EncodeRequest(request) ==
    [request EXCEPT
       !.accounts = IF request.accounts = OmittedList THEN <<>> ELSE request.accounts,
       !.shouldIncludeWeb3Name =
           IF request.shouldIncludeWeb3Name = "true" THEN "true" ELSE "false"]

\* the leaves of the identity of a subject
IdentityLeaves(identifier) ==
    {<<"DidKey", k>> : k \in DidKeyIds}
        \cup {<<"LinkedAccount", a>> : a \in DidLinkedAccounts}
        \cup (IF HasWeb3Name(identifier) THEN {<<"Web3Name", identifier>>} ELSE {})

\* the leaves a request asks to reveal, in the order of the request
RequestedLeaves(request) ==
    [i \in 1..Len(request.proofKeys) |-> <<"DidKey", request.proofKeys[i]>>]
        \o [i \in 1..Len(request.accounts) |-> <<"LinkedAccount", request.accounts[i]>>]
        \o (IF request.shouldIncludeWeb3Name = "true"
            THEN <<<<"Web3Name", request.identifier>>>> ELSE <<>>)

\* providerApi.call.dipProvider.generateProof(request): a runtime call, executed
\* on the state of the provider chain's best block at the time it is served.
\* The entrypoint is opaque: for an identity with a commitment in that state it
\* answers with the root committed for (identifier, version) and the requested
\* leaves revealed, or with the error for a leaf the identity does not hold;
\* without one it answers with one of the errors for an identity it cannot
\* prove.
ProviderGenerateProof(request) ==
    LET c == provCommit[Len(provCommit)][<<request.identifier, request.version>>]
        leaves == RequestedLeaves(request)
        missing == {i \in 1..Len(leaves) : leaves[i] \notin IdentityLeaves(request.identifier)}
        first == CHOOSE i \in missing : \A j \in missing : i <= j
    IN IF c = NoDigest
       THEN {[isErr |-> TRUE, err |-> e, root |-> NoDigest,
              proof |-> [blinded |-> {}, revealed |-> <<>>]] :
                e \in {<<"IdentityProvider", "DidNotFound">>,
                       <<"IdentityProvider", "DidDeleted">>,
                       <<"IdentityProvider", "Internal">>,
                       <<"MerkleProof", "UnsupportedVersion">>,
                       <<"MerkleProof", "Internal">>}}
       ELSE IF missing # {}
       THEN {[isErr |-> TRUE,
              err |-> <<"MerkleProof",
                        IF leaves[first][1] = "DidKey" THEN "KeyNotFound"
                        ELSE IF leaves[first][1] = "LinkedAccount"
                        THEN "LinkedAccountNotFound" ELSE "Web3NameNotFound">>,
              root |-> NoDigest, proof |-> [blinded |-> {}, revealed |-> <<>>]]}
       ELSE {[isErr |-> FALSE, err |-> <<>>, root |-> c,
              proof |-> [blinded |-> IdentityLeaves(request.identifier)
                                        \ {leaves[i] : i \in 1..Len(leaves)},
                         revealed |-> leaves]]}

\* subjectIdentity.ts:57-78  generateDipIdentityProof: the proof the provider
\* answers with, or for an error answer an Error with the message that
\* findError gives for the bytes of the error
GenerateDipIdentityProof(didUri, keyIds, includeWeb3Name, linkedAccounts, version) ==
    LET request == ProofRequest(didUri, keyIds, includeWeb3Name, linkedAccounts, version)
        served == EncodeRequest(request)
    IN UNION {IF p.isErr
              THEN {[NoDipRes EXCEPT
                       !.status = "DisclosureError", !.kind = p.err, !.message = m,
                       !.request = request, !.served = served,
                       !.servedAt = ProvBest] : m \in FindError(ErrorToHex(p.err))}
              ELSE {[NoDipRes EXCEPT
                       !.status = "ok", !.root = p.root, !.proof = p.proof,
                       !.request = request, !.served = served,
                       !.servedAt = ProvBest]} :
              p \in ProviderGenerateProof(served)}

\* sibling.ts:283,285  linkedAccounts || [], includeWeb3Name || false
\* (sibling.ts:98-99 and part_013:29-30 for generateDipAuthorizedTxForSibling)
LinkedAccountsOrDefault(linkedAccounts) ==
    IF linkedAccounts = OmittedList THEN <<>> ELSE linkedAccounts
IncludeWeb3NameOrDefault(includeWeb3Name) ==
    IF includeWeb3Name = "true" THEN "true" ELSE "false"

\* ------------------------------------------------------------------ composition
\* "commitment"   generateDipCommitmentProof called on its own
\* "siblingBase"  src/sibling.ts:253-294 generateDipSiblingBaseProof
\* "siblingTx"    src/sibling.ts:79-132  generateDipAuthorizedTxForSibling,
\*                the anchor, commitment and disclosure part

\* a direct call of generateDipCommitmentProof for a provider block height
CommitmentCall(didUri, version, n) ==
    /\ base.pc = "idle" /\ anc.pc = "idle"
    /\ LET bh == ProviderGetBlockHash(n)
           r == GenerateDipCommitmentProof(didUri, bh, version)
       IN base' = [IdleBase EXCEPT
                     !.fn = "commitment", !.pc = "done", !.didUri = didUri,
                     !.version = version, !.provIn = n, !.commitAt = bh,
                     !.commit = r, !.status = r.status]
    /\ UNCHANGED <<chainVars, consVars, anc, sigVars>>

\* sibling.ts:253-262  the call of generateDipSiblingBaseProof
BaseStart(didUri, version, relayBlockHeight) ==
    /\ base.pc = "idle" /\ anc.pc = "idle"
    /\ base' = [IdleBase EXCEPT
                  !.fn = "siblingBase", !.pc = "height", !.didUri = didUri,
                  !.version = version, !.relayIn = relayBlockHeight]
    /\ UNCHANGED <<chainVars, consVars, anc, sigVars>>

\* the default height is the one the relay chain had finalized when the SDK
\* was set up, kept since
BaseResolveHeight_Kept ==
    /\ base.fn = "siblingBase" /\ base.pc = "height"
    /\ LET actualRelayBlockHeight ==
               IF base.relayIn # Undefined THEN base.relayIn ELSE 0
       IN /\ base' = [base EXCEPT !.pc = "anchor", !.relayIn = actualRelayBlockHeight]
          /\ anc' = [IdleAnchor EXCEPT
                       !.rev = "current", !.caller = "base", !.pc = "relayBlock", !.relayIn = actualRelayBlockHeight]
    /\ UNCHANGED <<chainVars, consVars, sigVars>>

\* sibling.ts:263-272  the given relay height, or the relay chain's latest
\* finalized one; generateProviderStateRootProof is called with it
BaseResolveHeight ==
    /\ base.fn = "siblingBase" /\ base.pc = "height"
    /\ LET actualRelayBlockHeight ==
               IF base.relayIn # Undefined THEN base.relayIn ELSE relayFin
       IN /\ base' = [base EXCEPT !.pc = "anchor", !.relayIn = actualRelayBlockHeight]
          /\ anc' = [IdleAnchor EXCEPT
                       !.rev = "current", !.caller = "base", !.pc = "relayBlock", !.relayIn = actualRelayBlockHeight]
    /\ UNCHANGED <<chainVars, consVars, sigVars>>

\* sibling.ts:79-109  the call of generateDipAuthorizedTxForSibling, which
\* first calls generateProviderStateRootProof of part_013
SiblingStart(didUri, version, providerBlockHeight) ==
    /\ base.pc = "idle" /\ anc.pc = "idle"
    /\ base' = [IdleBase EXCEPT
                  !.fn = "siblingTx", !.pc = "anchor", !.didUri = didUri,
                  !.version = version, !.provIn = providerBlockHeight]
    /\ anc' = [IdleAnchor EXCEPT
                 !.rev = "part_013", !.caller = "base", !.pc = "resolve", !.N = providerBlockHeight]
    /\ UNCHANGED <<chainVars, consVars, sigVars>>

\* the block before the anchor's
CommitmentBlockHash_Before(fn, anchor) ==
    ProviderGetBlockHash(anchor.providerBlockHeight - 1)

\* the anchor's block, with no offset
CommitmentBlockHash_Anchor(fn, anchor) ==
    ProviderGetBlockHash(anchor.providerBlockHeight)

\* the provider's best block in place of the anchor's
CommitmentBlockHash_Best(fn, anchor) == ProviderGetBlockHash(ProvBest)

\* sibling.ts:273-277 (siblingBase): the provider block hash the anchor reports;
\* sibling.ts:111-113 (siblingTx): the hash looked up for the height it reports
\* parent.ts:113-116 (parentTx), part_005:114-117 (siblingTx005), part_006:92-95
\* (siblingBase006): the hash looked up for that height less one
CommitmentBlockHash(fn, anchor) ==
    IF fn = "siblingBase"
    THEN anchor.providerBlockHash
    ELSE IF fn \in {"parentTx", "siblingTx005", "siblingBase006"}
    THEN ProviderGetBlockHash(anchor.providerBlockHeight - 1)
    ELSE ProviderGetBlockHash(anchor.providerBlockHeight)

\* the anchor whose provider block height the commitment block is taken from:
\* the height the anchor reports, or in part_006:85-94, whose anchor function
\* reports none, the height the anchor was asked for
AnchorTarget(fn, anchor, actualProviderBlockHeight) ==
    IF fn = "siblingBase006"
    THEN [anchor EXCEPT !.providerBlockHeight = actualProviderBlockHeight]
    ELSE anchor

\* the anchor is back: an error ends the composition with that error.
\* Otherwise generateDipCommitmentProof is called for the anchor's provider
\* block: sibling.ts:273-278 (siblingBase, the reported hash), sibling.ts:111-122
\* (siblingTx, the hash looked up for the reported height).  The read is pinned
\* to that block hash.
BaseCommitment ==
    /\ base.pc = "anchor"
    /\ anc.pc = "done" /\ anc.caller = "base"
    /\ LET bh == CommitmentBlockHash(base.fn, AnchorTarget(base.fn, anc.res, base.provIn))
           r == GenerateDipCommitmentProof(base.didUri, bh, base.version)
       IN base' = IF anc.res.status # "ok"
                  THEN [base EXCEPT !.pc = "done", !.anchor = anc.res,
                                    !.status = anc.res.status]
                  ELSE IF r.status # "ok"
                  THEN [base EXCEPT !.pc = "done", !.anchor = anc.res,
                                    !.commitAt = bh, !.commit = r,
                                    !.status = r.status]
                  ELSE [base EXCEPT !.pc = "identity", !.anchor = anc.res,
                                    !.commitAt = bh, !.commit = r]
    /\ anc' = IdleAnchor
    /\ UNCHANGED <<chainVars, consVars, sigVars>>

\* sibling.ts:279-293, sibling.ts:125-132  generateDipIdentityProof, the result
BaseIdentity ==
    /\ base.pc = "identity"
    /\ \E r \in GenerateDipIdentityProof(base.didUri, base.keyIds,
                      IncludeWeb3NameOrDefault(base.includeWeb3Name),
                      LinkedAccountsOrDefault(base.linkedAccounts), base.version) :
          base' = [base EXCEPT !.pc = "done", !.dip = r, !.status = r.status]
    /\ UNCHANGED <<chainVars, consVars, anc, sigVars>>

BaseReturn ==
    /\ base.pc = "done"
    /\ base' = IdleBase
    /\ UNCHANGED <<chainVars, consVars, anc, sigVars>>

\* the subject the compositions are run for
ProofDids == {"did:kilt:alice"}

ProofStep ==
    \/ \E d \in DidUris, v \in Versions, n \in ProviderHeights : CommitmentCall(d, v, n)
    \/ \E d \in ProofDids, v \in Versions, r \in RelayHeights \cup {Undefined} :
          BaseStart(d, v, r)
    \/ BaseResolveHeight
    \/ \E d \in ProofDids, v \in Versions, n \in ProviderHeights \cup {Undefined} :
          SiblingStart(d, v, n)
    \/ BaseCommitment
    \/ BaseIdentity
    \/ BaseReturn

NextProof ==
    \/ ChainStep
    \/ ProviderProduceCommit("alice", 0)
    \/ A13Resolve \/ A13Proof \/ ACurRelayBlock \/ ACurHead \/ ACurProof
    \/ ProofStep

SpecProof == Init /\ [][NextProof]_vars

\* ------------------------------------------------------------------ the consumer chain
\* the consumer chain authors a block
ConsumerProduce ==
    /\ consHeight < MaxCons
    /\ consHeight' = consHeight + 1
    /\ UNCHANGED <<consIdentity, chainVars, anc, proofVars, sigVars>>

\* the consumer chain authors a run of validUntilOffset blocks
ConsumerProduceRun ==
    /\ consHeight <= MaxCons
    /\ consHeight' = consHeight + ValidUntilOffset
    /\ UNCHANGED <<consIdentity, chainVars, anc, proofVars, sigVars>>

\* the consumer chain authors a block with a dispatchAs of the subject, which
\* creates or bumps the subject's identity record (a nonce)
ConsumerDispatch(subject) ==
    /\ consHeight < MaxCons
    /\ consIdentity[subject] < MaxNonce
    /\ consHeight' = consHeight + 1
    /\ consIdentity' = [consIdentity EXCEPT ![subject] = consIdentity[subject] + 1]
    /\ UNCHANGED <<chainVars, anc, proofVars, sigVars>>

\* ------------------------------------------------------------------ payload encoding
\* api.createType("(Call, <details>, <account>, <number>, Hash)", [...]).toU8a():
\* the SCALE encoding of a tuple is the concatenation of the encodings of its
\* fields.

RECURSIVE LEBytes(_, _)
\* an unsigned integer in w little-endian bytes
LEBytes(n, w) == IF w = 0 THEN <<>> ELSE <<n % 256>> \o LEBytes(n \div 256, w - 1)

Repeat(b, w) == [i \in 1..w |-> b]

\* the byte width of a fixed-width runtime type
TypeBytes(typeName) ==
    IF typeName = "u64" THEN 8 ELSE IF typeName = "u128" THEN 16 ELSE 32

\* the calls of the consumer chain that are authorized: postIt.post(text), a
\* pallet index, a call index, and the text with its compact length prefix
Calls == {"post(a)", "post(ab)"}
EncodeCall(call) ==
    IF call = "post(a)" THEN <<10, 0, 4, 97>> ELSE <<10, 0, 8, 97, 98>>

Submitters == {"submitter1", "submitter2"}
EncodeAccountId(address) ==
    Repeat(IF address = "submitter1" THEN 1 ELSE 2, TypeBytes("AccountId"))

EncodeHash(hash) ==
    Repeat(IF hash = ConsumerGenesis THEN 7 ELSE 9, TypeBytes("Hash"))

\* identity details that hide the difference between no record and the record 0
EncodeIdentityDetails_NoTag(identityDetails) ==
    IF identityDetails = NoNonce THEN LEBytes(0, TypeBytes("u128"))
    ELSE LEBytes(identityDetails, TypeBytes("u128"))

\* Option<u128>: the byte 0 for None, the byte 1 and the value for Some
EncodeIdentityDetails(identityDetails) ==
    IF identityDetails = NoNonce THEN <<0>>
    ELSE <<1>> \o LEBytes(identityDetails, TypeBytes("u128"))

\* part_010:109-114  the payload of (call, identityDetails, submitterAddress,
\* blockNumber, genesis)
EncodePayload(call, identityDetails, submitterAddress, blockNumber, genesis) ==
    EncodeCall(call) \o EncodeIdentityDetails(identityDetails)
        \o EncodeAccountId(submitterAddress)
        \o LEBytes(blockNumber, TypeBytes("u64")) \o EncodeHash(genesis)

\* the type names a registry of the consumer chain knows
KnownTypes == {"Call", "Option<u128>", "AccountId", "u64", "Hash"}

\* part_010:111  the tuple type the payload is created with
PayloadType(identityDetailsRuntimeType, accountIdRuntimeType, blockNumberRuntimeType) ==
    <<"Call", identityDetailsRuntimeType, accountIdRuntimeType,
      blockNumberRuntimeType, "Hash">>

\* ------------------------------------------------------------------ part_010
\* generateTimeBoundDipDidSignature({ provider: { didUri, signer, keyRelationship },
\*   consumer: { api, call, submitterAddress, genesisHash?,
\*               identityDetailsRuntimeType?, validUntil? } })
\* The account and block number type names are left to their defaults.

\* the block number read from the chain whether or not validUntil is given
ReadsNumber_Always(validUntil) == TRUE

\* the expiry taken from the chain even when validUntil is given
ResolveBlockNumber_IgnoresExplicit(validUntil, number) == number + ValidUntilOffset

\* the caller's validUntil handed back instead of the resolved block number
ReturnedValidUntil_Input(validUntil, blockNumber) == validUntil

\* part_010:98-100  validUntil ?? (await api.query.system.number()): the right
\* side of ?? is evaluated only if validUntil is not given
ReadsNumber(validUntil) == validUntil = Undefined

\* part_010:98-102  blockNumber
ResolveBlockNumber(validUntil, number) ==
    IF validUntil # Undefined THEN validUntil ELSE number + ValidUntilOffset

\* a genesis that is always read from the chain
ResolveGenesis_Chain(genesisHash, chainGenesis) == chainGenesis

\* part_010:103  genesis
ResolveGenesis(genesisHash, chainGenesis) ==
    IF genesisHash # Omitted THEN genesisHash ELSE chainGenesis

\* part_010:23-26,111  a type name or its default
OrDefault(typeName, default) == IF typeName # Omitted THEN typeName ELSE default

\* part_010:115-119  what the signing callback answers for a payload
Sign(data, did) == [signed |-> data, did |-> did]
SignerOutcomes == {"signed", "refused"}

\* part_010:120-124  the validUntil of the result
ReturnedValidUntil(validUntil, blockNumber) == blockNumber

\* u8aToHex
U8aToHex(bytes) == [hex |-> bytes]

\* part_010:127-137  signatureToCodec
SignatureToCodec(signature) ==
    [signature |-> <<signature.type, signature.signature>>,
     validUntil |-> signature.validUntil]

\* sibling.ts:134-137,167-174  the signature element of the envelope, built from
\* the result of the signature generation
SiblingSignatureElement(signature) ==
    [signature |-> <<signature.type, U8aToHex(signature.signature)>>,
     validUntil |-> signature.validUntil]

\* what the signing callback was handed, and from what it was encoded
LogEntry(call, identityDetails, submitterAddress, blockNumber, genesis) ==
    [call |-> call, identityDetails |-> identityDetails,
     submitterAddress |-> submitterAddress, blockNumber |-> blockNumber,
     genesis |-> genesis,
     payload |-> EncodePayload(call, identityDetails, submitterAddress,
                               blockNumber, genesis)]

\* the call
SigStart(didUri, call, submitterAddress, validUntil, genesisHash, identityDetailsRuntimeType) ==
    /\ sig.pc = "idle"
    /\ sig' = [IdleSig EXCEPT
                 !.pc = "blockNumber", !.didUri = didUri, !.call = call,
                 !.submitterAddress = submitterAddress, !.validUntil = validUntil,
                 !.genesisHash = genesisHash,
                 !.identityDetailsRuntimeType = identityDetailsRuntimeType]
    /\ signerLog' = <<>>
    /\ UNCHANGED <<chainVars, consVars, anc, proofVars>>

\* part_010:98-102  the expiry block number
SigBlockNumber ==
    /\ sig.pc = "blockNumber"
    /\ sig' = [sig EXCEPT
                 !.pc = "identity",
                 !.blockNumber = ResolveBlockNumber(sig.validUntil, consHeight),
                 !.reads = IF ReadsNumber(sig.validUntil)
                           THEN sig.reads \cup {"system.number"} ELSE sig.reads]
    /\ UNCHANGED <<chainVars, consVars, anc, proofVars, signerLog>>

\* part_010:103-119  the genesis hash, the subject's identity record as stored
\* now (or the null of the defaulted details type), the payload, and the call
\* of the signer.  The tuple type of line 111 is built from the details type
\* name as given: createType throws for a name the registry does not know.
SigIdentity ==
    /\ sig.pc = "identity"
    /\ LET genesis == ResolveGenesis(sig.genesisHash, ConsumerGenesis)
           identityDetails == consIdentity[ToChain(sig.didUri)]
           type == PayloadType(sig.identityDetailsRuntimeType,
                               OrDefault(Omitted, "AccountId"),
                               OrDefault(Omitted, "u64"))
           reads == sig.reads \cup {"dipConsumer.identityEntries"}
                       \cup (IF sig.genesisHash = Omitted
                             THEN {"system.blockHash"} ELSE {})
       IN sig' = IF \E i \in 1..Len(type) : type[i] \notin KnownTypes
                 THEN [sig EXCEPT !.pc = "done", !.genesis = genesis,
                                  !.identityDetails = identityDetails,
                                  !.reads = reads, !.status = "CreateTypeError"]
                 ELSE [sig EXCEPT
                         !.pc = "signing", !.genesis = genesis,
                         !.identityDetails = identityDetails, !.reads = reads,
                         !.payload = EncodePayload(sig.call, identityDetails,
                                        sig.submitterAddress, sig.blockNumber, genesis),
                         !.signedAt = consHeight]
    /\ UNCHANGED <<chainVars, consVars, anc, proofVars, signerLog>>

\* part_010:115-124  the signer answers: the result, and the envelope elements
\* made of it
SigSigned ==
    /\ sig.pc = "signing"
    /\ \E o \in SignerOutcomes :
          sig' = IF o = "refused"
                 THEN [sig EXCEPT !.pc = "done", !.status = "SignerError"]
                 ELSE LET res == [validUntil |-> ReturnedValidUntil(sig.validUntil,
                                                                    sig.blockNumber),
                                  signature |-> Sign(sig.payload, sig.didUri),
                                  type |-> "sr25519"]
                      IN [sig EXCEPT !.pc = "done", !.status = "ok", !.res = res,
                                     !.codec = SignatureToCodec(res),
                                     !.element = SiblingSignatureElement(res)]
    /\ UNCHANGED <<chainVars, consVars, anc, proofVars, signerLog>>

\* part_010:98-107  a read of the consumer chain is rejected: the awaited
\* promise rejects with the error of the RPC layer, nothing catches it, and the
\* rest of the function (the payload, the signer) is not run
SigReadFails ==
    /\ \/ sig.pc = "blockNumber" /\ ReadsNumber(sig.validUntil)
       \/ sig.pc = "identity"
    /\ sig' = [sig EXCEPT !.pc = "done", !.status = "RpcError"]
    /\ UNCHANGED <<chainVars, consVars, anc, proofVars, signerLog>>

\* the caller has its result and calls again with the same inputs
SigRepeat ==
    /\ sig.pc = "done"
    /\ sig' = [IdleSig EXCEPT
                 !.pc = "blockNumber", !.didUri = sig.didUri, !.call = sig.call,
                 !.submitterAddress = sig.submitterAddress,
                 !.validUntil = sig.validUntil, !.genesisHash = sig.genesisHash,
                 !.identityDetailsRuntimeType = sig.identityDetailsRuntimeType]
    /\ signerLog' = IF sig.payload = <<>> THEN <<>>
                    ELSE <<LogEntry(sig.call, sig.identityDetails,
                                    sig.submitterAddress, sig.blockNumber, sig.genesis)>>
    /\ UNCHANGED <<chainVars, consVars, anc, proofVars>>

\* the caller has its result and is done with these inputs
SigReturn ==
    /\ sig.pc = "done"
    /\ sig' = IdleSig
    /\ signerLog' = <<>>
    /\ UNCHANGED <<chainVars, consVars, anc, proofVars>>

\* the values validUntil is given: a block soon passed, and a later one
ValidUntils == {1, ValidUntilOffset + 1}

SigStep ==
    \/ \E d \in DidUris, c \in Calls, a \in Submitters,
          v \in ValidUntils \cup {Undefined},
          g \in {ConsumerGenesis, OtherGenesis, Omitted},
          t \in {"Option<u128>", Omitted} : SigStart(d, c, a, v, g, t)
    \/ SigBlockNumber
    \/ SigIdentity
    \/ SigSigned
    \/ SigReadFails
    \/ SigRepeat
    \/ SigReturn

NextSig ==
    \/ ConsumerProduce
    \/ ConsumerProduceRun
    \/ \E s \in Subjects : ConsumerDispatch(s)
    \/ SigStep

SpecSig == Init /\ [][NextSig]_vars

\* ------------------------------------------------------------------ the payload alone
\* the tuples a payload can be encoded from
BlockNumbers == ValidUntils \cup {h + ValidUntilOffset : h \in 0..MaxCons}
PayloadTuples ==
    Calls \X ({NoNonce} \cup 0..MaxNonce) \X Submitters \X BlockNumbers
        \X {ConsumerGenesis, OtherGenesis}

\* two payloads are encoded and handed to the signer
EncodePair(a, b) ==
    /\ sig.pc = "idle" /\ signerLog = <<>>
    /\ signerLog' = <<LogEntry(a[1], a[2], a[3], a[4], a[5]),
                      LogEntry(b[1], b[2], b[3], b[4], b[5])>>
    /\ UNCHANGED <<chainVars, consVars, anc, proofVars, sig>>

NextPayload == \E a \in PayloadTuples, b \in PayloadTuples : EncodePair(a, b)

SpecPayload == Init /\ [][NextPayload]_vars

\* ------------------------------------------------------------------ the disclosure alone
\* the lists of verification method ids a proof is asked for
KeyIdLists ==
    {<<>>} \cup {<<k>> : k \in KeyIds} \cup {<<k, l>> : k \in KeyIds, l \in KeyIds}
\* the lists of linked accounts a proof is asked for
AccountLists == {OmittedList, <<>>, <<"account1">>, <<"account9">>}

\* subjectIdentity.ts:57-78  a call of generateDipIdentityProof on its own
IdentityCall(didUri, keyIds, includeWeb3Name, linkedAccounts, version) ==
    /\ base.pc = "idle" /\ anc.pc = "idle"
    /\ \E r \in GenerateDipIdentityProof(didUri, keyIds, includeWeb3Name,
                                         linkedAccounts, version) :
          base' = [IdleBase EXCEPT
                     !.fn = "identity", !.pc = "done", !.didUri = didUri,
                     !.version = version, !.keyIds = keyIds,
                     !.includeWeb3Name = includeWeb3Name,
                     !.linkedAccounts = linkedAccounts,
                     !.dip = r, !.status = r.status]
    /\ UNCHANGED <<chainVars, consVars, anc, sigVars>>

NextDisclosure ==
    \/ ProviderProduce
    \/ \E s \in Subjects : ProviderProduceCommit(s, 0)
    \/ \E d \in DidUris, k \in KeyIdLists, w \in {"true", "false", Omitted},
          a \in AccountLists, v \in Versions : IdentityCall(d, k, w, a, v)
    \/ BaseReturn

SpecDisclosure == Init /\ [][NextDisclosure]_vars

\* ------------------------------------------------------------------ the operation
\* consumerApi.tx.dipConsumer.dispatchAs(subject, proof, call): the operation
\* is built, nothing is sent
DispatchAs(subject, proof, call) == [subject |-> subject, proof |-> proof, call |-> call]

\* the tag of the version after
VersionTag_Next(proofVersion) == <<"V", proofVersion + 1>>

\* `V${proofVersion}`
VersionTag(proofVersion) == <<"V", proofVersion>>

\* { ...a, ...b }: the keys of both, and for a key of both the value of b
Spread(a, b) ==
    [k \in DOMAIN a \cup DOMAIN b |-> IF k \in DOMAIN b THEN b[k] ELSE a[k]]

\* sibling.ts:156-178  the operation of generateDipAuthorizedTxForSibling
AuthorizedTxForSibling(didUri, proofVersion, call, anchor, commit, dip, signature) ==
    DispatchAs(
        ToChain(didUri),
        [t \in {VersionTag(proofVersion)} |->
            [providerHeadProof |-> [relayBlockNumber |-> anchor.relayBlockHeight,
                                    proof |-> anchor.proof],
             dipCommitmentProof |-> commit.proof,
             dipProof |-> [blinded |-> dip.proof.blinded,
                           revealed |-> dip.proof.revealed],
             signature |-> SiblingSignatureElement(signature)]],
        call)

\* part_005:159-174  the operation of the earlier generateDipAuthorizedTxForSibling
AuthorizedTxForSibling005(didUri, proofVersion, call, anchor, commit, dip, signature) ==
    DispatchAs(
        ToChain(didUri),
        [t \in {VersionTag(proofVersion)} |->
            [paraStateRoot |-> [relayBlockHeight |-> anchor.relayBlockHeight,
                                proof |-> anchor.proof],
             dipIdentityCommitment |-> commit.proof,
             did |-> [leaves |-> [blinded |-> dip.proof.blinded,
                                  revealed |-> dip.proof.revealed],
                      signature |->
                          [signature |-> <<signature.type,
                                           U8aToHex(signature.signature)>>,
                           blockNumber |-> signature.validUntil]]]],
        call)

\* sibling.ts:288-293  the result of generateDipSiblingBaseProof
DipSiblingBaseProofRes(anchor, commit, dip, proofVersion) ==
    [providerHeadProof |-> anchor, dipCommitmentProof |-> commit,
     dipProof |-> dip, proofVersion |-> proofVersion]

\* sibling.ts:330-338  the fields made of the base proof
BaseProofFields(baseDipProof) ==
    [providerHeadProof |->
         [relayBlockNumber |-> baseDipProof.providerHeadProof.relayBlockHeight,
          proof |-> baseDipProof.providerHeadProof.proof],
     dipCommitmentProof |-> baseDipProof.dipCommitmentProof.proof,
     dipProof |-> [blinded |-> baseDipProof.dipProof.proof.blinded,
                   revealed |-> baseDipProof.dipProof.proof.revealed]]

\* the subject of the base proof in place of the one of didUri
GenerateDipSubmittableExtrinsic_BaseSubject(additionalProofElements, baseDipProof, call, didUri) ==
    DispatchAs(
        baseDipProof.dipProof.request.identifier,
        [t \in {VersionTag(baseDipProof.proofVersion)} |->
            Spread(BaseProofFields(baseDipProof), additionalProofElements)],
        call)

\* sibling.ts:317-344  generateDipSubmittableExtrinsic
GenerateDipSubmittableExtrinsic(additionalProofElements, baseDipProof, call, didUri) ==
    DispatchAs(
        ToChain(didUri),
        [t \in {VersionTag(baseDipProof.proofVersion)} |->
            Spread(BaseProofFields(baseDipProof), additionalProofElements)],
        call)

\* the account that submits the operations
TxSubmitter == "one"

\* sibling.ts:79-109  the call of generateDipAuthorizedTxForSibling: the anchor
\* is asked for; the inputs of the signature are held until it is generated,
\* the details type defaulted (sibling.ts:97)
TxStart(didUri, proofVersion, providerBlockHeight, call, validUntil) ==
    /\ base.pc = "idle" /\ anc.pc = "idle" /\ sig.pc = "idle"
    /\ base' = [IdleBase EXCEPT
                  !.fn = "siblingTx", !.pc = "anchor", !.didUri = didUri,
                  !.version = proofVersion, !.provIn = providerBlockHeight]
    /\ anc' = [IdleAnchor EXCEPT
                 !.rev = "part_013", !.caller = "base", !.pc = "resolve",
                 !.N = providerBlockHeight]
    /\ sig' = [IdleSig EXCEPT
                 !.pc = "pending", !.didUri = didUri, !.call = call,
                 !.submitterAddress = TxSubmitter, !.validUntil = validUntil,
                 !.identityDetailsRuntimeType = OrDefault(Omitted, "Option<u128>")]
    /\ signerLog' = <<>>
    /\ UNCHANGED <<chainVars, consVars>>

\* sibling.ts:134-154, parent.ts:134-154, part_005:137-157  the disclosure
\* proof is back:
\* generateDipDidSignature is called
TxSignature ==
    /\ base.fn \in {"siblingTx", "parentTx", "siblingTx005"} /\ base.pc = "done" /\ base.status = "ok"
    /\ sig.pc = "pending"
    /\ base' = [base EXCEPT !.pc = "signature"]
    /\ sig' = [sig EXCEPT !.pc = "blockNumber"]
    /\ UNCHANGED <<chainVars, consVars, anc, signerLog>>

\* the operation is built whatever the signature generation gave
TxAssemble_Partial ==
    /\ base.fn = "siblingTx" /\ base.pc = "signature"
    /\ sig.pc = "done"
    /\ base' = [base EXCEPT
                  !.pc = "returned",
                  !.op = AuthorizedTxForSibling(base.didUri, base.version,
                             sig.call, base.anchor, base.commit, base.dip,
                             sig.res)]
    /\ UNCHANGED <<chainVars, consVars, anc, sigVars>>

\* parent.ts:156-179  the envelope of generateDipAuthorizedTxForParent and the
\* call of relayApi.tx.dipConsumer.dispatchAs with it.  The extrinsic function
\* is called with the subject and the envelope only: it takes three arguments
\* and throws for any other number.
AuthorizedTxForParent(didUri, proofVersion, call, anchor, header, commit, dip, signature) ==
    LET envelope ==
            [t \in {VersionTag(proofVersion)} |->
                [paraStateRoot |-> [relayBlockHeight |-> anchor.relayBlockHeight,
                                    proof |-> anchor.proof],
                 header |-> header,
                 dipIdentityCommitment |-> commit.proof,
                 did |-> [leaves |-> [blinded |-> dip.proof.blinded,
                                      revealed |-> dip.proof.revealed],
                          signature |->
                              [signature |-> <<signature.type,
                                               U8aToHex(signature.signature)>>,
                               blockNumber |-> signature.validUntil]]]]
        args == <<ToChain(didUri), envelope>>
    IN [envelope |-> envelope,
        status |-> IF Len(args) = 3 THEN "ok" ELSE "ExtrinsicArgumentsError",
        op |-> IF Len(args) = 3 THEN DispatchAs(args[1], args[2], args[3]) ELSE NoOp]

\* sibling.ts:134-178, parent.ts:134-179  the signature generation is over: its
\* error ends the call, its result is put into the operation
TxAssemble ==
    /\ base.fn \in {"siblingTx", "parentTx", "siblingTx005"} /\ base.pc = "signature"
    /\ sig.pc = "done"
    /\ base' = IF sig.status # "ok"
               THEN [base EXCEPT !.pc = "returned", !.status = sig.status]
               ELSE IF base.fn = "parentTx"
               THEN LET r == AuthorizedTxForParent(base.didUri, base.version,
                                 sig.call, base.anchor, base.header, base.commit,
                                 base.dip, sig.res)
                    IN [base EXCEPT !.pc = "returned", !.status = r.status,
                                    !.envelope = r.envelope, !.op = r.op]
               ELSE IF base.fn = "siblingTx005"
               THEN [base EXCEPT
                       !.pc = "returned",
                       !.op = AuthorizedTxForSibling005(base.didUri, base.version,
                                  sig.call, base.anchor, base.commit, base.dip,
                                  sig.res)]
               ELSE [base EXCEPT
                       !.pc = "returned",
                       !.op = AuthorizedTxForSibling(base.didUri, base.version,
                                  sig.call, base.anchor, base.commit, base.dip,
                                  sig.res)]
    /\ UNCHANGED <<chainVars, consVars, anc, sigVars>>

\* the additional elements a caller extends a base proof with: none, a
\* signature, and elements under the name of a field of the base proof
AdditionalProofElements ==
    {<<>>,
     [signature |-> "a signature"],
     [signature |-> "a signature",
      dipProof |-> [blinded |-> {}, revealed |-> <<<<"DidKey", <<"z">>>>>>]]}

\* a caller of generateDipSiblingBaseProof has the base proof and calls
\* generateDipSubmittableExtrinsic with it
ExtSubmit(additionalProofElements, call, didUri) ==
    /\ base.fn = "siblingBase" /\ base.pc = "done" /\ base.status = "ok"
    /\ base' = [base EXCEPT
                  !.pc = "returned",
                  !.ext = [didUri |-> didUri, call |-> call],
                  !.op = GenerateDipSubmittableExtrinsic(
                             additionalProofElements,
                             DipSiblingBaseProofRes(base.anchor, base.commit,
                                                    base.dip, base.version),
                             call, didUri)]
    /\ UNCHANGED <<chainVars, consVars, anc, sigVars>>

\* the caller has the operation, or the error
TxReturn ==
    /\ \/ base.pc = "returned"
       \/ base.pc = "done" /\ base.status # "ok"
    /\ base' = IdleBase
    /\ sig' = IdleSig
    /\ signerLog' = <<>>
    /\ UNCHANGED <<chainVars, consVars, anc>>

NextAssembly ==
    \/ ChainStep
    \/ ProviderProduceCommit("alice", 0)
    \/ \E v \in Versions, c \in Calls : TxStart("did:kilt:alice", v, Undefined, c, Undefined)
    \/ A13Resolve
    \/ A13Proof
    \/ \E v \in Versions : BaseStart("did:kilt:alice", v, Undefined)
    \/ BaseResolveHeight
    \/ ACurRelayBlock
    \/ ACurHead
    \/ ACurProof
    \/ BaseCommitment
    \/ BaseIdentity
    \/ TxSignature
    \/ SigBlockNumber
    \/ SigIdentity
    \/ SigSigned
    \/ SigReadFails
    \/ TxAssemble
    \/ \E a \in AdditionalProofElements, d \in DidUris : ExtSubmit(a, "post(a)", d)
    \/ TxReturn

SpecAssembly == Init /\ [][NextAssembly]_vars

\* ------------------------------------------------------------------ over utils.ts
\* The orchestrations written over utils.ts (part_013):
\*   "parentTx"      src/parent.ts generateDipAuthorizedTxForParent, whose
\*                   consumer is the relay chain
\*   "siblingTx005"  part_005 generateDipAuthorizedTxForSibling

\* relayApi.rpc.chain.getHeader(hash): the header of the block of that hash.
\* An undefined argument is encoded as the zero hash; the node then answers
\* with no header, decoded as the default one, or, where the argument is left
\* out of the request, with the header of its best block.
RelayGetHeader(hash) ==
    IF hash = ZeroHash
    THEN {[number |-> 0], [number |-> RelayBest]}
    ELSE {[number |-> hash.height]}

\* parent.ts:78-108  the call of generateDipAuthorizedTxForParent: the anchor is
\* asked for; the inputs of the signature are held until it is generated
ParentStart(didUri, proofVersion, providerBlockHeight, call, blockHeight) ==
    /\ base.pc = "idle" /\ anc.pc = "idle" /\ sig.pc = "idle"
    /\ base' = [IdleBase EXCEPT
                  !.fn = "parentTx", !.pc = "header", !.didUri = didUri,
                  !.version = proofVersion, !.provIn = providerBlockHeight]
    /\ anc' = [IdleAnchor EXCEPT
                 !.rev = "part_013", !.caller = "base", !.pc = "resolve",
                 !.N = providerBlockHeight]
    /\ sig' = [IdleSig EXCEPT
                 !.pc = "pending", !.didUri = didUri, !.call = call,
                 !.submitterAddress = TxSubmitter, !.validUntil = blockHeight,
                 !.identityDetailsRuntimeType = OrDefault(Omitted, "Option<u128>")]
    /\ signerLog' = <<>>
    /\ UNCHANGED <<chainVars, consVars>>

\* parent.ts:99-111  the anchor is back: an error ends the call.  Otherwise the
\* header is asked for under the relayParentBlockHash of the anchor's result,
\* which the result of part_013:94-98 (and 398-402) has no field of.
ParentHeader ==
    /\ base.fn = "parentTx" /\ base.pc = "header"
    /\ anc.pc = "done" /\ anc.caller = "base"
    /\ LET relayParentBlockHash ==
               IF "relayParentBlockHash" \in DOMAIN anc.res
               THEN anc.res.relayParentBlockHash ELSE ZeroHash
       IN IF anc.res.status # "ok"
          THEN /\ base' = [base EXCEPT !.pc = "done", !.anchor = anc.res,
                                       !.status = anc.res.status]
               /\ anc' = IdleAnchor
          ELSE /\ \E h \in RelayGetHeader(relayParentBlockHash) :
                     base' = [base EXCEPT !.pc = "anchor", !.anchor = anc.res,
                                          !.header = h]
               /\ anc' = anc
    /\ UNCHANGED <<chainVars, consVars, sigVars>>

\* part_005:82-112  the call of the earlier generateDipAuthorizedTxForSibling
TxStart005(didUri, proofVersion, providerBlockHeight, call, blockHeight) ==
    /\ base.pc = "idle" /\ anc.pc = "idle" /\ sig.pc = "idle"
    /\ base' = [IdleBase EXCEPT
                  !.fn = "siblingTx005", !.pc = "anchor", !.didUri = didUri,
                  !.version = proofVersion, !.provIn = providerBlockHeight]
    /\ anc' = [IdleAnchor EXCEPT
                 !.rev = "part_013", !.caller = "base", !.pc = "resolve",
                 !.N = providerBlockHeight]
    /\ sig' = [IdleSig EXCEPT
                 !.pc = "pending", !.didUri = didUri, !.call = call,
                 !.submitterAddress = TxSubmitter, !.validUntil = blockHeight,
                 !.identityDetailsRuntimeType = OrDefault(Omitted, "Option<u128>")]
    /\ signerLog' = <<>>
    /\ UNCHANGED <<chainVars, consVars>>

\* part_013:585-586  blockHeight ?? (await api.query.system.number()), read on
\* the consumer chain, which in parent mode is the relay chain
DidSignatureBlockNumber ==
    /\ base.fn \in {"parentTx", "siblingTx005"} /\ sig.pc = "blockNumber"
    /\ sig' = [sig EXCEPT
                 !.pc = "identity",
                 !.blockNumber = IF sig.validUntil # Undefined
                                 THEN sig.validUntil
                                 ELSE IF base.fn = "parentTx"
                                 THEN RelayBest ELSE consHeight,
                 !.reads = IF sig.validUntil = Undefined
                           THEN sig.reads \cup {"system.number"} ELSE sig.reads]
    /\ UNCHANGED <<chainVars, consVars, anc, proofVars, signerLog>>

\* part_006:74-84  the call of the earlier generateDipSiblingBaseProof
BaseStart006(didUri, version, providerBlockHeight) ==
    /\ base.pc = "idle" /\ anc.pc = "idle" /\ sig.pc = "idle"
    /\ base' = [IdleBase EXCEPT
                  !.fn = "siblingBase006", !.pc = "height", !.didUri = didUri,
                  !.version = version, !.provIn = providerBlockHeight]
    /\ UNCHANGED <<chainVars, consVars, anc, sigVars>>

\* part_006:31-37,85-90  the given provider height, or the number of the
\* provider's finalized head; generateProviderStateRootProof is called with it
BaseResolveHeight006 ==
    /\ base.fn = "siblingBase006" /\ base.pc = "height"
    /\ LET actualProviderBlockHeight ==
               IF base.provIn # Undefined THEN base.provIn ELSE provFin
       IN /\ base' = [base EXCEPT !.pc = "anchor", !.provIn = actualProviderBlockHeight]
          /\ anc' = [AnchorInFlight("part_008", "base") EXCEPT
                       !.pc = "reads", !.N = actualProviderBlockHeight]
    /\ UNCHANGED <<chainVars, consVars, sigVars>>

NextUtils ==
    \/ ChainStep
    \/ ProviderProduceCommit("alice", 0)
    \/ \E c \in Calls : ParentStart("did:kilt:alice", 0, Undefined, c, Undefined)
    \/ \E c \in Calls : TxStart005("did:kilt:alice", 0, Undefined, c, Undefined)
    \/ \E n \in {Undefined, 1} : BaseStart006("did:kilt:alice", 0, n)
    \/ BaseResolveHeight006
    \/ A8ReadFinalized
    \/ A8ReadNextBlock
    \/ A8Check
    \/ A8Proof
    \/ A13Resolve
    \/ A13Proof
    \/ ParentHeader
    \/ BaseCommitment
    \/ BaseIdentity
    \/ TxSignature
    \/ DidSignatureBlockNumber
    \/ SigIdentity
    \/ SigSigned
    \/ SigReadFails
    \/ TxAssemble
    \/ TxReturn
    \/ base.fn = "siblingBase006" /\ BaseReturn

SpecUtils == Init /\ [][NextUtils]_vars

\* In the provider chain of SpecProof and of SpecAssembly the subject "alice" commits her identity
\* at version 0 in any number of blocks; nothing is ever committed at version 1
\* or for "bob".

\* ------------------------------------------------------------------ anchors: properties
\* the provider block whose header a relay read proof attests
AttestedHeight(proof) == proof.value[2]
\* the provider block the relay chain records as head at the anchor's relay block
RecordedHead(res) == relayHeads[res.relayBlockHeight + 1]

AnchorDone(rev) == anc.rev = rev /\ anc.pc = "done"
AnchorReturned(rev) == AnchorDone(rev) /\ anc.res.status = "ok"

\* C1 (as claimed): part_008 called with a height N at or beyond the provider
\* chain's latest finalized block ends with the not-provable error, whether or
\* not block N+1 exists.  provFin never decreases, so N >= provFin at the end of
\* the call means N >= the latest finalized block at every moment of the call.
C1_FailsWithNotProvable ==
    (AnchorDone("part_008") /\ anc.N >= provFin) => anc.res.status = "NotProvable"

\* C1, the part that the code keeps: no anchor is returned for such a height.
C1_NoAnchorAtOrBeyondFinalized ==
    (AnchorDone("part_008") /\ anc.N >= provFin) => anc.res.status # "ok"

\* C1: a call for a height at or beyond the latest finalized block has ended
C1_Witness ==
    AnchorDone("part_008") /\ anc.N >= provFin /\ anc.res.status = "NotProvable"

\* C2: for a height N strictly below the latest finalized provider block at the
\* call, anchor resolution never ends with the not-provable error, and the
\* anchor is the one of block N: the proof of part_008 attests the header of
\* block N, and part_013 reports height N.
C2_ProvableBelowFinalized ==
    /\ (AnchorDone("part_008") /\ anc.N < anc.finAtStart) =>
          /\ anc.res.status = "ok"
          /\ anc.res.proof.key = HeadsKey(ProviderParaId)
          /\ AttestedHeight(anc.res.proof) = anc.N
          /\ anc.res.proof.value = HeadData(anc.N)
          /\ anc.res.proof.at = RHash(anc.res.relayBlockHeight)
    /\ (AnchorDone("part_013") /\ anc.N # Undefined /\ anc.N < anc.finAtStart) =>
          /\ anc.res.status = "ok"
          /\ anc.res.providerBlockHeight = anc.N

\* C2: part_008 has returned an anchor for a block that is not the first one
C2_Witness ==
    AnchorReturned("part_008") /\ anc.N < anc.finAtStart /\ anc.N >= 1

\* the provider block an anchor reports, as (height, hash); part_013 reports no hash
ReportedIs(res, n) ==
    /\ res.providerBlockHeight = n
    /\ res.providerBlockHash \in {ZeroHash, PHash(n)}

BaseDone(fn) == base.fn = fn /\ base.pc = "done"
\* the commitment stored under the composition's key at a provider block hash
CommitmentAt(bh) == provCommit[bh.height + 1][<<ToChain(base.didUri), base.version>>]

\* C4 (as claimed): in every result of generateDipSiblingBaseProof and of the
\* proof part of generateDipAuthorizedTxForSibling, the root of the disclosure
\* proof equals the identity commitment stored for (subject, version) at the
\* provider block at which the commitment storage proof was read (stated for
\* the results whose commitment proof attests a stored commitment).
C4_RootIsCommitmentAtProofBlock ==
    \A fn \in {"siblingBase", "siblingTx"} :
        (BaseDone(fn) /\ base.status = "ok" /\ CommitmentAt(base.commitAt) # NoDigest) =>
            /\ base.commit.proof.at = base.commitAt
            /\ base.commit.proof.value = CommitmentAt(base.commitAt)
            /\ base.dip.root = base.commit.proof.value

\* C4: a composition has returned for a subject whose commitment was updated in
\* a block later than the one the commitment proof was read at
C4_Witness ==
    /\ BaseDone("siblingBase") /\ base.status = "ok"
    /\ CommitmentAt(base.commitAt) # NoDigest
    /\ CommitmentAt(PHash(ProvBest)) # CommitmentAt(base.commitAt)

\* C5 (as claimed): generateDipCommitmentProof fails with CommitmentNotFound
\* when no commitment of the requested version is stored for the subject at the
\* requested provider block, and returns the proof of the stored value of that
\* very version when one is stored.
C5_CommitmentNotFoundWhenAbsent ==
    (BaseDone("commitment") /\ base.commitAt # ZeroHash) =>
        IF CommitmentAt(base.commitAt) = NoDigest
        THEN base.status = "CommitmentNotFound"
        ELSE /\ base.status = "ok"
             /\ base.commit.proof.key = CommitmentKey(base.didUri, base.version)
             /\ base.commit.proof.value = CommitmentAt(base.commitAt)

\* C5: a proof was asked for version 1 at a block where the subject has a
\* commitment at version 0 and none at version 1
C5_Witness ==
    /\ BaseDone("commitment") /\ base.commitAt # ZeroHash
    /\ base.version = 1
    /\ provCommit[base.commitAt.height + 1][<<ToChain(base.didUri), 0>>] # NoDigest
    /\ CommitmentAt(base.commitAt) = NoDigest

\* ------------------------------------------------------------------ signatures: properties
SigReturned == sig.pc = "done" /\ sig.status = "ok"
SigHanded == sig.pc \in {"signing", "done"} /\ sig.payload # <<>>

RECURSIVE LEValue(_)
\* the unsigned integer of little-endian bytes
LEValue(bytes) == IF bytes = <<>> THEN 0 ELSE bytes[1] + 256 * LEValue(Tail(bytes))

\* the block number field of an encoded payload: the 8 bytes before the final hash
DecodeBlockNumber(payload) ==
    LEValue(SubSeq(payload, Len(payload) - 39, Len(payload) - 32))

\* C6 (as claimed): the validUntil of every returned signature is at or after
\* the consumer chain's block height at the moment the payload was handed to
\* the signer, for an explicit validUntil and for a derived one.
C6_ValidUntilNotBeforeGeneration ==
    SigReturned => sig.res.validUntil >= sig.signedAt

\* C6: a signature with a derived validUntil has been returned, and the chain
\* produced blocks between the read of its height and the call of the signer
C6_Witness ==
    /\ SigReturned /\ sig.validUntil = Undefined
    /\ sig.signedAt > sig.res.validUntil - ValidUntilOffset
    /\ sig.res.validUntil >= sig.signedAt

\* C7: the expiry block is the explicit validUntil when one is given, and then
\* the chain's block number is not read; otherwise it is the chain's block
\* number at the read plus the offset 50.  Once resolved it is not changed.
C7_ExpiryResolution ==
    /\ [][(sig.pc = "blockNumber" /\ sig'.pc = "identity") =>
             IF sig.validUntil # Undefined
             THEN sig'.blockNumber = sig.validUntil /\ sig'.reads = sig.reads
             ELSE /\ sig'.blockNumber = consHeight + 50
                  /\ "system.number" \in sig'.reads]_vars
    /\ [][(sig.pc \in {"identity", "signing"} /\ sig'.pc \in {"signing", "done"}) =>
             sig'.blockNumber = sig.blockNumber]_vars
    /\ [](sig.validUntil # Undefined => "system.number" \notin sig.reads)

\* C7: an expiry was derived from a chain that is past its first block
C7_Witness ==
    /\ sig.pc = "identity" /\ sig.validUntil = Undefined
    /\ sig.blockNumber > ValidUntilOffset

C9_PayloadBindsAll ==
    \A i \in 1..Len(signerLog), j \in 1..Len(signerLog) :
        signerLog[i].payload = signerLog[j].payload =>
            /\ signerLog[i].call = signerLog[j].call
            /\ signerLog[i].identityDetails = signerLog[j].identityDetails
            /\ signerLog[i].submitterAddress = signerLog[j].submitterAddress
            /\ signerLog[i].blockNumber = signerLog[j].blockNumber
            /\ signerLog[i].genesis = signerLog[j].genesis

\* C9: two payloads were encoded that differ in the call alone
C9_Witness ==
    /\ Len(signerLog) = 2
    /\ signerLog[1].call # signerLog[2].call
    /\ signerLog[1].identityDetails = signerLog[2].identityDetails
    /\ signerLog[1].submitterAddress = signerLog[2].submitterAddress
    /\ signerLog[1].blockNumber = signerLog[2].blockNumber
    /\ signerLog[1].genesis = signerLog[2].genesis
    /\ signerLog[1].payload # signerLog[2].payload

\* C10 (as claimed): an invocation made again with the same inputs, the expiry
\* block and the genesis hash both explicit, hands the signer the same bytes as
\* the invocation before it.
C10_SamePayloadAgain ==
    (SigHanded /\ signerLog # <<>>
        /\ sig.validUntil # Undefined /\ sig.genesisHash # Omitted) =>
        sig.payload = signerLog[1].payload

\* C10 (amended): it does so whenever the subject's identity record read from
\* the consumer chain is the same in both invocations.
C10_SamePayloadForSameRecord ==
    (SigHanded /\ signerLog # <<>>
        /\ sig.validUntil # Undefined /\ sig.genesisHash # Omitted
        /\ sig.identityDetails = signerLog[1].identityDetails) =>
        sig.payload = signerLog[1].payload

\* C10: the second of two such invocations has handed its payload, later on
\* the chain than the first, with the identity record unchanged
C10_Witness ==
    /\ SigHanded /\ signerLog # <<>>
    /\ sig.validUntil # Undefined /\ sig.genesisHash # Omitted
    /\ sig.identityDetails = signerLog[1].identityDetails
    /\ sig.identityDetails # NoNonce
    /\ sig.signedAt > ValidUntilOffset

\* ------------------------------------------------------------------ assembly: properties
\* a call of generateDipAuthorizedTxForSibling is in flight
TxInFlight == base.fn = "siblingTx" /\ base.pc \in {"anchor", "identity", "done", "signature"}
\* its anchor, commitment and disclosure leg is still at work
ProofLegAtWork == base.fn = "siblingTx" /\ base.pc \in {"anchor", "identity"}
\* its authorization leg has been started
AuthorizationLegStarted == sig.pc # "pending"
\* the signer has been invoked
SignerInvoked == sig.pc = "signing" \/ (sig.pc = "done" /\ sig.payload # <<>>)

\* C11: in generateDipAuthorizedTxForSibling the authorization leg does not
\* wait for the anchor, commitment and disclosure leg: while that leg is at
\* work the consumer-chain reads and the signing are under way as well.
C11_AuthorizationLegDoesNotWait == ProofLegAtWork => AuthorizationLegStarted

\* the order the code has: the signer is invoked only once the disclosure
\* proof has been returned, and the operation is built only after both legs
C11_SignerAfterDisclosure ==
    /\ (TxInFlight /\ SignerInvoked) => base.dip.status = "ok"
    /\ (base.fn = "siblingTx" /\ base.op.subject # "none")
          => (base.dip.status = "ok" /\ sig.pc = "done" /\ sig.status = "ok")
C11_Witness == TxInFlight /\ SignerInvoked /\ base.anchor.status = "ok"

\* the statuses of the legs in the order the assembler runs them
LegStatuses == <<base.anchor.status, base.commit.status, base.dip.status, sig.status>>
LegFailed(i) == LegStatuses[i] \notin {"ok", "none"}
SomeLegFailed == \E i \in 1..4 : LegFailed(i)
FirstFailed == CHOOSE i \in 1..4 : LegFailed(i) /\ \A j \in 1..4 : LegFailed(j) => i <= j
\* the caller has the result or the error of the assembler
AssemblerOver ==
    \/ base.pc = "returned"
    \/ base.pc = "done" /\ (base.fn = "siblingBase" \/ base.status # "ok")

\* the composition is one of the assembler's
Assembling == base.fn \in {"siblingBase", "siblingTx"}

\* C12: within one invocation the commitment proof is requested only after the
\* anchor has been resolved, the disclosure proof only after the commitment
\* proof has been returned, and the commitment is read at the provider block of
\* that invocation's anchor.
C12_AnchorThenCommitmentThenDisclosure ==
    Assembling =>
        /\ base.pc = "anchor" => (base.commit = NoCommitRes /\ base.dip = NoDipRes)
        /\ base.pc = "identity" => (base.commit.status = "ok" /\ base.dip = NoDipRes)
        /\ base.commit # NoCommitRes =>
              /\ base.anchor.status = "ok"
              /\ base.commitAt = (IF base.fn = "siblingBase"
                                  THEN base.anchor.providerBlockHash
                                  ELSE PHash(base.anchor.providerBlockHeight))
              /\ base.commit.status = "ok" => base.commit.proof.at = base.commitAt
        /\ base.dip # NoDipRes => base.commit.status = "ok"
C12_Witness ==
    /\ Assembling /\ base.dip.status = "ok"
    /\ base.anchor.providerBlockHeight < ProvBest

\* C13: when a leg of generateDipAuthorizedTxForSibling or of
\* generateDipSiblingBaseProof fails, no operation is built and no result is
\* returned, no later leg is run, and the caller gets the error of the first
\* leg that failed as that leg gave it.
C13_FailFast ==
    (Assembling /\ SomeLegFailed) =>
        /\ base.op = NoOp
        /\ \A j \in 1..4 : j > FirstFailed => LegStatuses[j] = "none"
        /\ AssemblerOver => base.status = LegStatuses[FirstFailed]
C13_Witness ==
    /\ base.fn = "siblingTx" /\ base.pc = "returned"
    /\ sig.status = "SignerError" /\ base.dip.status = "ok"

\* an operation has been built
OpBuilt == base.op.subject # "none"
\* the call an encoded payload begins with
PayloadHasCall(payload, call) ==
    /\ Len(payload) >= Len(EncodeCall(call))
    /\ SubSeq(payload, 1, Len(EncodeCall(call))) = EncodeCall(call)

\* C14: the operation returned is dispatchAs(subject, envelope, call) with the
\* chain encoding of didUri as subject and the caller's call as call; in
\* generateDipAuthorizedTxForSibling that call is the one of the signed payload
\* and that subject the one whose identity record, commitment and disclosure
\* were used.
C14_OperationOfSubjectAndCall ==
    /\ ((base.fn = "siblingTx" /\ OpBuilt) =>
             /\ base.op.subject = ToChain(base.didUri)
             /\ base.op.subject = base.commit.proof.key[2]
             /\ base.op.subject = base.dip.request.identifier
             /\ sig.didUri = base.didUri
             /\ "dipConsumer.identityEntries" \in sig.reads
             /\ base.op.call = sig.call
             /\ PayloadHasCall(sig.payload, base.op.call)
             /\ \A c \in Calls : PayloadHasCall(sig.payload, c) => c = base.op.call
             /\ sig.res.signature = Sign(sig.payload, base.didUri))
    /\ ((base.fn = "siblingBase" /\ OpBuilt) =>
             /\ base.op.subject = ToChain(base.ext.didUri)
             /\ base.op.call = base.ext.call)
C14_Witness ==
    /\ base.fn = "siblingTx" /\ OpBuilt /\ base.op.call = "post(ab)"
    /\ base.op.subject = "alice"
OpBaseProof == DipSiblingBaseProofRes(base.anchor, base.commit, base.dip, base.version)
OpContent == base.op.proof[<<"V", base.version>>]

\* C16: whatever additionalProofElements holds, the fields made of the base
\* proof are in the envelope as the base proof gave them; the additional
\* elements stand next to them and replace none of them.
C16_BaseFieldsKept ==
    (base.fn = "siblingBase" /\ OpBuilt) =>
        \A k \in DOMAIN BaseProofFields(OpBaseProof) :
            /\ k \in DOMAIN OpContent
            /\ OpContent[k] = BaseProofFields(OpBaseProof)[k]
C16_Witness ==
    /\ base.fn = "siblingBase" /\ OpBuilt
    /\ "signature" \in DOMAIN OpContent
    /\ OpContent.dipProof # BaseProofFields(OpBaseProof).dipProof

\* ------------------------------------------------------------------ disclosure: properties
IdentityDone == base.fn = "identity" /\ base.pc = "done"

\* C17: the request generateDipIdentityProof hands to the provider has one key
\* identifier for each given verification method id, in the same order, each
\* the given id without its first character; subject, version, linked accounts
\* and web3name flag are passed as given.
C17_RequestOfInputs ==
    IdentityDone =>
        LET request == base.dip.request
        IN /\ Len(request.proofKeys) = Len(base.keyIds)
           /\ \A i \in 1..Len(base.keyIds) :
                 base.keyIds[i] = <<base.keyIds[i][1]>> \o request.proofKeys[i]
           /\ request.identifier = ToChain(base.didUri)
           /\ request.version = base.version
           /\ request.accounts = base.linkedAccounts
           /\ request.shouldIncludeWeb3Name = base.includeWeb3Name
C17_Witness ==
    /\ IdentityDone /\ base.status = "ok"
    /\ base.keyIds = << <<"#", "b">>, <<"#", "a">> >>
    /\ base.dip.request.proofKeys = << <<"b">>, <<"a">> >>
    /\ base.linkedAccounts = <<"account1">>

\* nothing is asked to be revealed
NothingRevealed ==
    /\ base.keyIds = <<>>
    /\ base.includeWeb3Name \in {"false", Omitted}
    /\ base.linkedAccounts \in {<<>>, OmittedList}
\* the digest committed for the subject and version in the block a request was
\* served on
CommittedAtServed ==
    provCommit[base.dip.servedAt + 1][<<ToChain(base.didUri), base.version>>]

C19_ErrorCarriesKind ==
    (IdentityDone /\ base.status # "ok") =>
        /\ base.dip.root = NoDigest /\ base.dip.proof.revealed = <<>>
        /\ base.dip.message.text = base.dip.kind[2]
\* what holds: no proof, and a message found under the indices of the kind's
\* group and of the kind in it
C19_ErrorIsMetadataLookup ==
    (IdentityDone /\ base.status # "ok") =>
        /\ base.dip.root = NoDigest /\ base.dip.proof.revealed = <<>>
        /\ base.dip.message \in FindError(ErrorToHex(base.dip.kind))
        /\ base.dip.message.text \notin ProofErrorKinds
C19_Witness ==
    /\ IdentityDone /\ base.dip.kind = <<"MerkleProof", "KeyNotFound">>
    /\ base.dip.message.pallet = 1 /\ base.dip.message.error = 1

\* ------------------------------------------------------------------ signature failures: properties
\* the signature generation ended on a rejected read of the consumer chain
ReadFailed == sig.pc = "done" /\ sig.status = "RpcError"
\* the signature generation ended on a failure of the signer
SignerFailed == sig.pc = "done" /\ sig.status = "SignerError"

\* C20: a failed read of the consumer chain (block number, genesis hash,
\* identity record) is reported as a ConsumerStateReadFailure, which is not the
\* failure of the signer, and the signer is not invoked after it; a failure of
\* the signer reaches the caller as it is, and no signature is returned.
C20_ReadFailureReported ==
    /\ ReadFailed =>
          /\ sig.status = "ConsumerStateReadFailure"
          /\ sig.payload = <<>>
          /\ sig.res = NoSigRes
    /\ SignerFailed => sig.res = NoSigRes
\* what holds: the error of the read is what the caller gets, the signer is not
\* invoked after it, and neither failure returns a signature
C20_FailuresEndTheCall ==
    /\ ReadFailed => (sig.payload = <<>> /\ sig.res = NoSigRes /\ sig.element = NoSigElement)
    /\ SignerFailed => (sig.payload # <<>> /\ sig.res = NoSigRes /\ sig.element = NoSigElement)
C20_Witness == ReadFailed /\ "system.number" \in sig.reads /\ sig.blockNumber # Undefined

\* ------------------------------------------------------------------ later claims: properties
\* C21: generateDipSiblingBaseProof reads the identity commitment at the very
\* provider block hash its own anchor reports, with no offset, under the key of
\* the same subject and the same proofVersion.
C21_CommitmentAtAnchorBlock ==
    (base.fn = "siblingBase" /\ base.commit.status = "ok") =>
        /\ base.commit.proof.at = base.anchor.providerBlockHash
        /\ base.commit.proof.at.height = base.anchor.providerBlockHeight
        /\ base.commit.proof.key = CommitmentKey(base.didUri, base.version)
        /\ base.commit.proof.value
              = provCommit[base.anchor.providerBlockHeight + 1]
                          [<<ToChain(base.didUri), base.version>>]
C21_Witness ==
    /\ base.fn = "siblingBase" /\ base.commit.status = "ok"
    /\ base.anchor.providerBlockHeight > 0
    /\ base.commit.proof.value # NoDigest

\* generateDipAuthorizedTxForParent has made its envelope
ParentEnvelopeMade ==
    base.fn = "parentTx" /\ base.pc = "returned" /\ sig.status = "ok"
ParentContent == base.envelope[<<"V", base.version>>]

\* C22: in parent mode the relay header in the envelope is the header of the
\* relay block the provider head proof was read at, the block of the
\* relayBlockHeight that stands next to that proof in the envelope.
C22_HeaderOfProofBlock ==
    ParentEnvelopeMade =>
        /\ ParentContent.header.number = ParentContent.paraStateRoot.relayBlockHeight
        /\ ParentContent.paraStateRoot.proof.at
              = RHash(ParentContent.paraStateRoot.relayBlockHeight)
\* what holds: the proof is of the block of relayBlockHeight, and the header is
\* one of the answers to a request without a block hash
C22_HeaderOfNoBlock ==
    ParentEnvelopeMade =>
        /\ ParentContent.paraStateRoot.proof.at
              = RHash(ParentContent.paraStateRoot.relayBlockHeight)
        /\ ParentContent.header = base.header
        /\ \E r \in 0..RelayBest : base.header.number = r
C22_Witness ==
    /\ ParentEnvelopeMade
    /\ ParentContent.paraStateRoot.relayBlockHeight = 1
    /\ ParentContent.header.number = 3

\* C23: nothing resolved survives an invocation of generateDipSiblingBaseProof.
\* An invocation begins with no anchor, commitment or disclosure; with the
\* height omitted it takes the relay chain's latest finalized height at that
\* moment, and its anchor is read on the chain for that height.
C23_NothingSurvivesAnInvocation ==
    /\ []((base.fn = "siblingBase" /\ base.pc = "height") =>
             /\ anc = IdleAnchor
             /\ base.anchor = NoAnchorRes /\ base.commit = NoCommitRes
             /\ base.dip = NoDipRes /\ base.op = NoOp)
    /\ []((base.fn = "siblingBase" /\ base.anchor.status = "ok") =>
             /\ base.anchor.relayBlockHeight = base.relayIn
             /\ base.anchor.proof.at = RHash(base.relayIn)
             /\ base.anchor.proof
                   = RelayReadProof(base.anchor.proof.key, RHash(base.relayIn)))
    /\ [][(base.fn = "siblingBase" /\ base.pc = "height" /\ base'.pc # "height") =>
             /\ base'.relayIn = (IF base.relayIn # Undefined
                                 THEN base.relayIn ELSE relayFin)
             /\ anc'.relayIn = base'.relayIn
             /\ anc'.res = NoAnchorRes]_vars
C23_Witness ==
    /\ base.fn = "siblingBase" /\ base.pc = "done" /\ base.status = "ok"
    /\ base.anchor.relayBlockHeight = 2 /\ relayFin = 3

\* a call of the earlier generateDipAuthorizedTxForSibling with no provider
\* block height
OmittedHeightCall == base.fn = "siblingTx005" /\ base.provIn = Undefined
\* the subject's commitment is in the block before the anchor's provider block
CommittedBeforeAnchor ==
    /\ base.anchor.status = "ok" /\ base.anchor.providerBlockHeight >= 1
    /\ provCommit[base.anchor.providerBlockHeight]
                 [<<ToChain(base.didUri), base.version>>] # NoDigest

DecodeIdentityDetails(payload, call) ==
    SubSeq(payload, Len(EncodeCall(call)) + 1, Len(payload) - 72)

\* the genesis field of an encoded payload: its last 32 bytes
DecodeGenesis(payload) == SubSeq(payload, Len(payload) - 31, Len(payload))

\* the payload is made in this step
PayloadMade == sig.payload = <<>> /\ sig'.payload # <<>>

\* C25: the identity-details field of the signed payload is the subject's
\* identity record as the consumer chain stores it when the payload is made
\* (Some of the stored value), or the explicit None of the details type when no
\* record is stored; the genesis field is the explicit genesisHash when one is
\* given, and the consumer chain's hash of block 0 otherwise.
C25_DetailsAndGenesisOfPayload ==
    /\ [][PayloadMade =>
            LET stored == consIdentity[ToChain(sig'.didUri)]
                field == DecodeIdentityDetails(sig'.payload, sig'.call)
            IN IF stored = NoNonce
               THEN field = <<0>>
               ELSE /\ Len(field) = 17 /\ field[1] = 1
                    /\ LEValue(Tail(field)) = stored]_vars
    /\ [](SigHanded =>
            DecodeGenesis(sig.payload) =
                EncodeHash(IF sig.genesisHash # Omitted THEN sig.genesisHash
                           ELSE ConsumerGenesis))

\* C25: a payload was handed to the signer for a subject with a stored record,
\* with an explicit genesis hash that is not the chain's own
C25_Witness ==
    /\ SigHanded /\ sig.identityDetails = 1
    /\ sig.genesisHash = OtherGenesis
    /\ DecodeGenesis(sig.payload) # EncodeHash(ConsumerGenesis)

\* C25: a payload was handed to the signer for a subject with no record, with
\* the genesis hash omitted
C25_WitnessAbsent ==
    /\ SigHanded /\ sig.identityDetails = NoNonce /\ sig.genesisHash = Omitted

\* the payload step of the signature generation has run: its reads were answered
SigEncoded ==
    /\ sig.pc \in {"signing", "done"}
    /\ "dipConsumer.identityEntries" \in sig.reads

\* C26 (as claimed): an omitted type name falls back to its default in every
\* use, so that a call without identityDetailsRuntimeType makes the payload a
\* call with "Option<u128>" makes of the same values.
C26_OmittedTypeAsDefault ==
    (SigEncoded /\ sig.identityDetailsRuntimeType = Omitted) =>
        /\ sig.status # "CreateTypeError"
        /\ sig.payload = EncodePayload(sig.call, sig.identityDetails,
                              sig.submitterAddress, sig.blockNumber, sig.genesis)

\* C26: a call without identityDetailsRuntimeType has read the subject's
\* record and ended at the creation of the payload
C26_Witness ==
    /\ SigEncoded /\ sig.identityDetailsRuntimeType = Omitted
    /\ sig.pc = "done" /\ sig.status = "CreateTypeError" /\ sig.payload = <<>>

\* a call of the anchor function of a revision has read the provider head (the
\* current revision) or the relay parent (part_008) and is over
AnchorPastHead(rev) ==
    /\ anc.rev = rev /\ anc.pc = "done" /\ anc.rh # ZeroHash
    /\ rev = "current" => anc.hdrNum # Undefined

\* C27 (as claimed): the read proof is requested for the relay chain's
\* paras.heads entry of the provider's para id, at the relay block hash the
\* provider head was read at, whatever blocks the relay chain makes meanwhile.
C27_ProofOfProviderHeadEntry ==
    \A rev \in {"current", "part_008"} :
        AnchorPastHead(rev) =>
            /\ anc.res.status = "ok"
            /\ anc.res.proof.key = HeadsKey(ProviderParaId)
            /\ anc.res.proof.at = anc.rh

\* C27: the proofs that are returned are read at the relay block the head was
\* read at
C27_ProofAtReadBlock ==
    \A rev \in {"current", "part_008"} :
        (AnchorPastHead(rev) /\ anc.res.status = "ok") =>
            /\ anc.res.proof.at = anc.rh
            /\ rev = "current" => anc.res.relayBlockHash = anc.rh

\* C27: the current revision has returned an anchor of a relay block that is
\* no longer the relay chain's best one, with a proof of another key
C27_Witness ==
    /\ AnchorPastHead("current") /\ anc.res.status = "ok"
    /\ anc.rh.height < RelayBest
    /\ anc.res.proof.key # HeadsKey(ProviderParaId)

\* C28 (as claimed): generateDipAuthorizedTxForParent returns the operation
\* dispatchAs(subject, envelope, call), as the sibling orchestration does, with
\* the call the signed payload covers.
C28_ParentWrapsCall ==
    ParentEnvelopeMade =>
        /\ OpBuilt
        /\ base.op.subject = ToChain(base.didUri)
        /\ base.op.call = sig.call
        /\ PayloadHasCall(sig.payload, base.op.call)

\* C28: the parent orchestration has its signature over a call and its
\* envelope, and ends with the error of the extrinsic function
C28_Witness ==
    /\ ParentEnvelopeMade /\ ~OpBuilt
    /\ base.status = "ExtrinsicArgumentsError"
    /\ sig.call = "post(ab)" /\ PayloadHasCall(sig.payload, "post(ab)")
    /\ DOMAIN base.envelope = {<<"V", base.version>>}

\* the orchestrations that read the commitment one block before the anchor's
OffsetFns == {"parentTx", "siblingTx005", "siblingBase006"}

\* the anchor is handed to the orchestration in this step
AnchorTaken ==
    /\ base.fn \in OffsetFns /\ base.pc = "anchor" /\ base'.pc # "anchor"
    /\ anc.res.status = "ok"

\* the provider block height an orchestration asked its anchor for
TargetHeight ==
    IF base.fn = "siblingBase006" THEN base.provIn
    ELSE base.anchor.providerBlockHeight

\* C29: generateDipAuthorizedTxForParent and the earlier sibling orchestrations
\* (part_005, part_006) read the commitment at the provider block of height
\* (anchor provider block height - 1), in every invocation, while the anchor
\* is resolved for the height itself.
C29_CommitmentOneBeforeAnchor ==
    /\ [][AnchorTaken =>
            /\ anc.N # Undefined
            /\ base.provIn # Undefined => anc.N = base.provIn
            /\ base'.commitAt = ProviderGetBlockHash(anc.N - 1)
            /\ anc.rev = "part_013" =>
                  (anc.res.providerBlockHeight = anc.N /\ anc.bh = PHash(anc.N))
            /\ anc.rev = "part_008" =>
                  (anc.res.proof.value = HeadData(anc.N)
                     /\ anc.bh = PHash(anc.N + 1))]_vars
    /\ []((base.fn \in OffsetFns /\ base.commit.status = "ok") =>
            /\ base.commit.proof.at = base.commitAt
            /\ base.commitAt = PHash(TargetHeight - 1))

\* C29: the earlier base composition has its commitment proof, read one block
\* before the block it was called for, which is not the provider's last one
C29_Witness ==
    /\ base.fn = "siblingBase006" /\ base.commit.status = "ok"
    /\ base.provIn = 1 /\ base.commit.proof.at = PHash(0)
    /\ base.anchor.proof.value = HeadData(1)

\* C29: the parent orchestration has its commitment proof for an anchor of a
\* later block than the first
C29_WitnessParent ==
    /\ base.fn = "parentTx" /\ base.commit.status = "ok"
    /\ base.anchor.providerBlockHeight = 2 /\ base.commitAt = PHash(1)

====
